---- MODULE Spec2Model ----
(***************************************************************************)
(* A model of the tarts sans-I/O LSP client (src/tarts/client.py,          *)
(* src/tarts/events.py, src/tarts/structs.py).                             *)
(*                                                                         *)
(* One Client object is modelled.  Its fields are the variables _state,    *)
(* _recv_buf, _send_buf, _unanswered_requests and _id_counter.  The        *)
(* embedder is the environment: it calls the facade operations, feeds      *)
(* frames received from the server and drains the send buffer.             *)
(*                                                                         *)
(* Python semantics the model relies on:                                   *)
(*   - `assert` raises AssertionError before anything after it runs;       *)
(*   - dict.pop(k) raises KeyError when k is absent and changes nothing;   *)
(*   - recv is a generator function: calling it runs nothing, each next()  *)
(*     runs up to the next yield, and an exception ends the generator;     *)
(*   - pydantic v2 (the code uses model_validate / TypeAdapter): a field   *)
(*     annotated Optional[X] WITHOUT a default is required, so validation  *)
(*     and construction fail when it is not given; unknown keys are        *)
(*     ignored.                                                            *)
(* JSON payloads are abstracted to their shape: null, a list of items      *)
(* that are well formed for the receiving decoder, or an object given by   *)
(* its set of keys (the values under the keys are taken to be well typed). *)
(***************************************************************************)
EXTENDS Integers, Sequences, FiniteSets, TLC

\* ------------------------------------------------------------------ bounds
\* Number of ids one session may allocate (requests per session).
MaxId == 2
\* Number of frames the send buffer may hold between two drains.
MaxSend == 2
\* Frames in one inbound byte stream.
MaxFrames == 3

\* ------------------------------------------------------------- identifiers
\* Id = Union[int, str].  An int id n is IntId(n); StrId(n) stands for the
\* string id "srv-n"; NoId is Python's None.
IntId(n) == [t |-> "int", n |-> n]
StrId(n) == [t |-> "str", n |-> n]
NoId == [t |-> "none", n |-> 0]

\* ---------------------------------------------------------- JSON payloads
\* vkind is the "kind" of the object under the key "value" ($/progress params),
\* "" where there is none.
JNull == [kind |-> "null", keys |-> {}, vkind |-> ""]
JList == [kind |-> "list", keys |-> {}, vkind |-> ""]
JDict(K) == [kind |-> "dict", keys |-> K, vkind |-> ""]
JProgress(K, vkind) == [kind |-> "dict", keys |-> K, vkind |-> vkind]

\* pydantic: a mapping validates against a model iff every required field
\* of the model is among its keys.
Validates(required, v) == v.kind = "dict" /\ required \subseteq v.keys

\* Required fields (fields declared without a default) of the event models.
ResponseErrorFields == {"message_id", "code", "message", "data"}
InitializedFields == {"capabilities"}
HoverFields == {"message_id", "contents", "range"}
SignatureHelpFields == {"message_id", "signatures", "activeSignature", "activeParameter"}
CompletionListFields == {"isIncomplete", "items"}
LocationFields == {"uri", "range"}

\* ----------------------------------------------------------------- events
\* message_id is the public field of the response events; _id is the private
\* attribute of a ServerRequest event, the id its reply echoes.
Event(type, mid) == [type |-> type, message_id |-> mid, _id |-> NoId]
ServerRequestEvent(type, id) == [type |-> type, message_id |-> NoId, _id |-> id]
NoEvent == Event("", NoId)

\* --------------------------------------------------------------- lifecycle
ClientState == {"NOT_INITIALIZED", "WAITING_FOR_INITIALIZED", "NORMAL",
                "WAITING_FOR_SHUTDOWN", "SHUTDOWN", "EXITED"}

\* ------------------------------------------------------ facade operations
\* The notification operations of the facade and the LSP method each sends.
NotificationOps ==
    [did_open |-> "textDocument/didOpen",
     did_change |-> "textDocument/didChange",
     will_save |-> "textDocument/willSave",
     did_save |-> "textDocument/didSave",
     did_close |-> "textDocument/didClose",
     did_change_configuration |-> "workspace/didChangeConfiguration",
     did_change_workspace_folders |-> "workspace/didChangeWorkspaceFolders"]

\* The request operations of the facade and the LSP method each sends.
RequestOps ==
    [will_save_wait_until |-> "textDocument/willSaveWaitUntil",
     completion |-> "textDocument/completion",
     rename |-> "textDocument/rename",
     hover |-> "textDocument/hover",
     folding_range |-> "textDocument/foldingRange",
     signatureHelp |-> "textDocument/signatureHelp",
     definition |-> "textDocument/definition",
     declaration |-> "textDocument/declaration",
     inlay_hint |-> "textDocument/inlayHint",
     typeDefinition |-> "textDocument/typeDefinition",
     references |-> "textDocument/references",
     prepareCallHierarchy |-> "textDocument/prepareCallHierarchy",
     implementation |-> "textDocument/implementation",
     workspace_symbol |-> "workspace/symbol",
     documentSymbol |-> "textDocument/documentSymbol",
     formatting |-> "textDocument/formatting",
     rangeFormatting |-> "textDocument/rangeFormatting"]

\* Request operations that hand the allocated id back to the caller
\* (will_save_wait_until calls _send_request without `return`).
ReturnsId(op) == op # "will_save_wait_until"

DocOps == DOMAIN NotificationOps \cup DOMAIN RequestOps

VARIABLES
    _state,                 \* Client._state
    _recv_buf,              \* Client._recv_buf: bytes received, not yet parsed
    _send_buf,              \* Client._send_buf: frames queued for the server
    _unanswered_requests,   \* Client._unanswered_requests: id -> Request
    _id_counter,            \* Client._id_counter
    initialize,             \* the `initialize` argument the client was constructed with
    in_use,                 \* the optional part of the surface this session exercises
    held,                   \* ids of the ServerRequest events the embedder holds
    replied,                \* the ids in held whose events have all been replied to
    last,                   \* what the last call returned, raised or yielded
    allocated,              \* history: ids handed out by _send_request, in order
    dispatched,             \* history: allocated ids whose response was handed to _handle_response
    msgs,                   \* the bodies the server writes to its byte stream, in order
    wire,                   \* the server's byte stream
    fed,                    \* how many bytes of wire were passed to recv so far
    gen,                    \* the generator the last recv(data) call returned
    log                     \* history: per frame taken off _recv_buf, what recv did with it

client == <<_state, _recv_buf, _send_buf, _unanswered_requests, _id_counter>>
history == <<allocated, dispatched>>
env == <<initialize, in_use>>
events == <<held, replied>>
feed == <<msgs, wire, fed, gen, log>>
vars == <<client, env, events, last, history, feed>>

\* ------------------------------------------------------------ frame codec
\* io_handler._make_request: one framed JSON-RPC message with the given
\* method, with an id (a request) or without one (a notification).  `arg`
\* is the id carried inside params ($/cancelRequest), NoId otherwise.
_make_request(method, arg, id) ==
    [kind |-> IF id = NoId THEN "notification" ELSE "request",
     id |-> id, method |-> method, arg |-> arg]

\* io_handler._make_response: one framed JSON-RPC response echoing `id`.
_make_response(id) ==
    [kind |-> "response", id |-> id, method |-> "", arg |-> NoId]

\* An inbound message as io_handler._parse_messages classifies it.
Response(id, result, error) ==
    [type |-> "Response", id |-> id, method |-> "", params |-> JNull,
     result |-> result, error |-> error]
Request(method, id, params) ==
    [type |-> "Request", id |-> id, method |-> method, params |-> params,
     result |-> JNull, error |-> JNull]

\* A body that is not JSON.
NotJson ==
    [type |-> "NotJson", id |-> NoId, method |-> "", params |-> JNull,
     result |-> JNull, error |-> JNull]

\* The bytes of the wire.  A frame is the header `Content-Length: n`, the
\* blank line that ends the headers, and n bytes of body; the i-th byte of
\* the serialisation of a body `of` is Byte(of, i).
ContentLength(n) == [b |-> "Content-Length", n |-> n, of |-> NoId, i |-> 0]
BlankLine == [b |-> "CRLFCRLF", n |-> 0, of |-> NoId, i |-> 0]
Byte(of, i) == [b |-> "body", n |-> 0, of |-> of, i |-> i]

\* The serialised body: a message with an id is one byte longer than one
\* without.
BodyLen(m) == IF m.id = NoId THEN 1 ELSE 2
Serialize(m) == [i \in 1..BodyLen(m) |-> Byte(m, i)]

EncodeOffByOne(m) == <<ContentLength(BodyLen(m) + 1), BlankLine>> \o Serialize(m)

\* Encode (io_handler._make_request, io_handler._make_response): the
\* serialised body behind `Content-Length: <byte length of the body>` and
\* the blank line.
Encode(m) == <<ContentLength(BodyLen(m)), BlankLine>> \o Serialize(m)

\* The byte stream that carries the bodies ms one after the other.
RECURSIVE Stream(_)
Stream(ms) == IF ms = <<>> THEN <<>> ELSE Encode(Head(ms)) \o Stream(Tail(ms))

\* What one step of the decoder hands back: a message, "incomplete" (more
\* bytes needed) or an error, and the buffer it leaves.
Parsed(status, message, rest) ==
    [status |-> status, message |-> message, rest |-> rest]

\* Step (4) for the n body bytes `body`, followed by `rest`: the buffer is
\* advanced past header and body, then the body is parsed as JSON.
ParseBody(body, rest) ==
    IF body[1].b = "body" /\ body[1].of # NotJson /\ body = Serialize(body[1].of)
    THEN Parsed("message", body[1].of, rest)
    ELSE Parsed("JSONDecodeError", NotJson, rest)

ParseDroppingTail(buf) ==
    LET sep == CHOOSE i \in 1..Len(buf) :
                   /\ buf[i].b = "CRLFCRLF"
                   /\ \A j \in 1..(i - 1) : buf[j].b # "CRLFCRLF"
        n == buf[sep - 1].n
    IN  IF (\A i \in 1..Len(buf) : buf[i].b # "CRLFCRLF") \/ Len(buf) - sep < n
        THEN Parsed("incomplete", NotJson, buf)
        ELSE ParseBody(SubSeq(buf, sep + 1, sep + n), <<>>)

ParseKeepsFailedFrame(buf) ==
    LET sep == CHOOSE i \in 1..Len(buf) :
                   /\ buf[i].b = "CRLFCRLF"
                   /\ \A j \in 1..(i - 1) : buf[j].b # "CRLFCRLF"
        n == buf[sep - 1].n
    IN  IF (\A i \in 1..Len(buf) : buf[i].b # "CRLFCRLF") \/ Len(buf) - sep < n
        THEN Parsed("incomplete", NotJson, buf)
        ELSE LET p == ParseBody(SubSeq(buf, sep + 1, sep + n),
                                SubSeq(buf, sep + n + 1, Len(buf)))
             IN  IF p.status = "message" THEN p
                 ELSE Parsed(p.status, NotJson, buf)

\* Decode (io_handler._parse_messages), one frame of the lazy sequence:
\* (1) locate the end of the headers, stop if absent; (2) take the
\* Content-Length header, its absence is a framing error; (3) stop if fewer
\* than that many body bytes follow; (4) slice the body, advance the buffer,
\* parse the body; (5) the parsed object is the Response or Request.
_parse_messages(buf) ==
    LET ends == {i \in 1..Len(buf) : buf[i].b = "CRLFCRLF"}
    IN  IF ends = {}
        THEN Parsed("incomplete", NotJson, buf)
        ELSE
        LET sep == CHOOSE i \in ends : \A j \in ends : i <= j
            lengths == {i \in 1..(sep - 1) : buf[i].b = "Content-Length"}
        IN  IF lengths = {}
            THEN Parsed("FramingError", NotJson, buf)
            ELSE
            LET n == buf[CHOOSE i \in lengths : TRUE].n
            IN  IF Len(buf) - sep < n
                THEN Parsed("incomplete", NotJson, buf)
                ELSE ParseBody(SubSeq(buf, sep + 1, sep + n),
                               SubSeq(buf, sep + n + 1, Len(buf)))

\* --------------------------------------------------- low-level operations
\* What a call hands back: the id returned (ret), the exception raised (res),
\* for recv the event yielded (ev) and for send the frames returned (out).
\* NotImplementedError(request) carries the request: ret is then its id.
Outcome(op, res, ret, ev) ==
    [op |-> op, res |-> res, ret |-> ret, ev |-> ev, out |-> <<>>]

\* A _send_request that takes the size of the table as the next id.
SendRequestReusingId(counter, buf, table, method) ==
    LET id == IntId(Cardinality(DOMAIN table))
    IN  [id |-> id,
         _id_counter |-> counter + 1,
         _send_buf |-> Append(buf, _make_request(method, NoId, id)),
         _unanswered_requests |->
             [k \in DOMAIN table \cup {id} |->
                 IF k = id THEN [id |-> id, method |-> method] ELSE table[k]]]

\* A _send_request that does not record the request in the table.
SendRequestUnrecorded(counter, buf, table, method) ==
    [id |-> IntId(counter),
     _id_counter |-> counter + 1,
     _send_buf |-> Append(buf, _make_request(method, NoId, IntId(counter))),
     _unanswered_requests |-> table]

\* Client._send_request on a client whose fields are counter, buf and table:
\* allocate the next id, queue the frame, record the request.  The result
\* is the id returned and the new value of the fields.
_send_request(counter, buf, table, method) ==
    LET id == IntId(counter)
    IN  [id |-> id,
         _id_counter |-> counter + 1,
         _send_buf |-> Append(buf, _make_request(method, NoId, id)),
         _unanswered_requests |->
             [k \in DOMAIN table \cup {id} |->
                 IF k = id THEN [id |-> id, method |-> method] ELSE table[k]]]

\* Client._send_notification: queue the frame of a notification.
_send_notification(buf, method, arg) ==
    Append(buf, _make_request(method, arg, NoId))

\* A _send_response that queues nothing.
SendResponseDropped(buf, id) == buf

\* Client._send_response: queue the frame of a response.
_send_response(buf, id) ==
    Append(buf, _make_response(id))

\* A pop that leaves the entry in the table.
PopKeeps(table, key) == table

\* dict.pop(key) on a key that is present.
Pop(table, key) == [k \in DOMAIN table \ {key} |-> table[k]]

Range(seq) == {seq[i] : i \in DOMAIN seq}

\* ------------------------------------------------------ response decoding
Decoded(type, mid) == [res |-> "ok", ev |-> Event(type, mid)]
Raised(exc) == [res |-> exc, ev |-> NoEvent]

\* A result that validates as List[...] or None.
ListOrNone(result) == result.kind \in {"list", "null"}
\* A result that validates as Union[Location, List[...], None].
LocationsOrNone(result) == ListOrNone(result) \/ Validates(LocationFields, result)

\* The method-specific arms of Client._handle_response for the document and
\* query requests: the event built from a success response with the given
\* id and result, or the exception raised while building it.
DecodeResult(method, id, result) ==
    CASE method = "textDocument/completion" ->
            \* a failed CompletionList validation is caught; the event is
            \* built with both of its fields given
            Decoded("Completion", id)
      [] method = "textDocument/willSaveWaitUntil" ->
            IF result.kind = "list" THEN Decoded("WillSaveWaitUntilEdits", NoId)
            ELSE Raised("ValidationError")
      [] method = "textDocument/hover" ->
            \* Hover(contents=[]) omits the required message_id and range
            IF result # JNull /\ Validates(HoverFields, result) THEN Decoded("Hover", id)
            ELSE Raised("ValidationError")
      [] method = "textDocument/foldingRange" ->
            IF ListOrNone(result) THEN Decoded("MFoldingRanges", id)
            ELSE Raised("ValidationError")
      [] method = "textDocument/signatureHelp" ->
            \* SignatureHelp(signatures=[]) omits three required fields
            IF result # JNull /\ Validates(SignatureHelpFields, result)
            THEN Decoded("SignatureHelp", id)
            ELSE Raised("ValidationError")
      [] method = "textDocument/documentSymbol" ->
            IF ListOrNone(result) THEN Decoded("MDocumentSymbols", id)
            ELSE Raised("ValidationError")
      [] method = "textDocument/inlayHint" ->
            \* the Response object itself is validated as MInlayHints
            Raised("ValidationError")
      [] method = "textDocument/rename" ->
            \* every arm builds WorkspaceEdit without at least one of the
            \* required fields changes and documentChanges
            Raised("ValidationError")
      [] method = "textDocument/definition" ->
            \* {"result": ...} lacks the required message_id
            Raised("ValidationError")
      [] method = "textDocument/references" ->
            IF ListOrNone(result) THEN Decoded("References", NoId)
            ELSE Raised("ValidationError")
      [] method = "textDocument/implementation" ->
            IF LocationsOrNone(result) THEN Decoded("Implementation", NoId)
            ELSE Raised("ValidationError")
      [] method = "textDocument/declaration" ->
            IF LocationsOrNone(result) THEN Decoded("Declaration", NoId)
            ELSE Raised("ValidationError")
      [] method = "textDocument/typeDefinition" ->
            IF LocationsOrNone(result) THEN Decoded("TypeDefinition", NoId)
            ELSE Raised("ValidationError")
      [] method = "textDocument/prepareCallHierarchy" ->
            IF ListOrNone(result) THEN Decoded("MCallHierarchItems", NoId)
            ELSE Raised("ValidationError")
      [] method \in {"textDocument/formatting", "textDocument/rangeFormatting"} ->
            \* {"result": ...} lacks the required message_id
            Raised("ValidationError")
      [] method = "workspace/symbol" ->
            IF ListOrNone(result) THEN Decoded("MWorkspaceSymbols", NoId)
            ELSE Raised("ValidationError")
      [] OTHER -> Raised("NotImplementedError")

\* What handling one inbound message does to the client, and what it yields.
Handled(st, buf, table, res, ev) ==
    [_state |-> st, _send_buf |-> buf, _unanswered_requests |-> table,
     res |-> res, ev |-> ev]

\* An assertion that always passes.
AssertStateSkipped(required) == TRUE
\* An assertion that passes once the lifecycle has reached the required
\* state (ClientState compared by value, >= for ==).
AssertStateReached(required) ==
    LET value == [s \in ClientState |->
                    CASE s = "NOT_INITIALIZED" -> 1
                      [] s = "WAITING_FOR_INITIALIZED" -> 2
                      [] s = "NORMAL" -> 3
                      [] s = "WAITING_FOR_SHUTDOWN" -> 4
                      [] s = "SHUTDOWN" -> 5
                      [] OTHER -> 6]
    IN  value[_state] >= value[required]

\* `assert self._state == ClientState.<required>`: whether it passes.
AssertState(required) == _state = required

\* An error arm that completes the shutdown handshake.
HandleErrorShutsDown(response, table) ==
    IF Validates(ResponseErrorFields, response.error)
    THEN Handled("SHUTDOWN", _send_buf, table, "ok", Event("ResponseError", response.id))
    ELSE Handled("SHUTDOWN", _send_buf, table, "ValidationError", NoEvent)

\* An "initialize" arm that queues no initialized notification.
HandleInitializeSilent(response, table) ==
    IF ~AssertState("WAITING_FOR_INITIALIZED")
    THEN Handled(_state, _send_buf, table, "AssertionError", NoEvent)
    ELSE IF Validates(InitializedFields, response.result)
    THEN Handled("NORMAL", _send_buf, table, "ok", Event("Initialized", NoId))
    ELSE Handled(_state, _send_buf, table, "ValidationError", NoEvent)

\* A "shutdown" arm without its assertion.
HandleShutdownUnchecked(response, table) ==
    Handled("SHUTDOWN", _send_buf, table, "ok", Event("Shutdown", NoId))

\* A "shutdown" arm that queues the exit notification itself.
HandleShutdownThenExit(response, table) ==
    IF ~AssertState("WAITING_FOR_SHUTDOWN")
    THEN Handled(_state, _send_buf, table, "AssertionError", NoEvent)
    ELSE Handled("SHUTDOWN", _send_notification(_send_buf, "exit", NoId), table,
                 "ok", Event("Shutdown", NoId))

\* The error arm of Client._handle_response: the error object is validated
\* as a ResponseError, which is then given the id of the response.
HandleError(response, table) ==
    IF Validates(ResponseErrorFields, response.error)
    THEN Handled(_state, _send_buf, table, "ok", Event("ResponseError", response.id))
    ELSE Handled(_state, _send_buf, table, "ValidationError", NoEvent)

\* The "initialize" arm: the initialized notification is queued, then the
\* result is validated, then the state is set.
HandleInitialize(response, table) ==
    IF ~AssertState("WAITING_FOR_INITIALIZED")
    THEN Handled(_state, _send_buf, table, "AssertionError", NoEvent)
    ELSE LET buf == _send_notification(_send_buf, "initialized", NoId)
         IN  IF Validates(InitializedFields, response.result)
             THEN Handled("NORMAL", buf, table, "ok", Event("Initialized", NoId))
             ELSE Handled(_state, buf, table, "ValidationError", NoEvent)

\* The "shutdown" arm.
HandleShutdown(response, table) ==
    IF ~AssertState("WAITING_FOR_SHUTDOWN")
    THEN Handled(_state, _send_buf, table, "AssertionError", NoEvent)
    ELSE Handled("SHUTDOWN", _send_buf, table, "ok", Event("Shutdown", NoId))

\* A _handle_response that looks the request up with a default
\* (pop(id, None)) and skips a response nobody waits for.
HandleResponseLenient(response) ==
    IF response.id = NoId
    THEN Handled(_state, _send_buf, _unanswered_requests, "AssertionError", NoEvent)
    ELSE IF response.id \notin DOMAIN _unanswered_requests
    THEN Handled(_state, _send_buf, _unanswered_requests, "ok", NoEvent)
    ELSE
    LET request == _unanswered_requests[response.id]
        table == Pop(_unanswered_requests, response.id)
    IN  IF response.error # JNull
        THEN HandleError(response, table)
        ELSE
        CASE request.method = "initialize" -> HandleInitialize(response, table)
          [] request.method = "shutdown" -> HandleShutdown(response, table)
          [] OTHER ->
                LET d == DecodeResult(request.method, response.id, response.result)
                IN  Handled(_state, _send_buf, table, d.res, d.ev)

\* A dispatch that decodes the result of a document request only while the
\* state is NORMAL.
HandleResponseInNormal(response) ==
    IF response.id = NoId
    THEN Handled(_state, _send_buf, _unanswered_requests, "AssertionError", NoEvent)
    ELSE IF response.id \notin DOMAIN _unanswered_requests
    THEN Handled(_state, _send_buf, _unanswered_requests, "KeyError", NoEvent)
    ELSE
    LET request == _unanswered_requests[response.id]
        table == Pop(_unanswered_requests, response.id)
    IN  IF response.error # JNull
        THEN HandleError(response, table)
        ELSE
        CASE request.method = "initialize" -> HandleInitialize(response, table)
          [] request.method = "shutdown" -> HandleShutdown(response, table)
          [] OTHER ->
                LET d == DecodeResult(request.method, response.id, response.result)
                IN  IF AssertState("NORMAL")
                    THEN Handled(_state, _send_buf, table, d.res, d.ev)
                    ELSE Handled(_state, _send_buf, table, "AssertionError", NoEvent)

\* Client._handle_response: the request is popped off the table first; an
\* error response returns before the match on the request's method.
_handle_response(response) ==
    IF response.id = NoId
    THEN Handled(_state, _send_buf, _unanswered_requests, "AssertionError", NoEvent)
    ELSE IF response.id \notin DOMAIN _unanswered_requests
    THEN Handled(_state, _send_buf, _unanswered_requests, "KeyError", NoEvent)
    ELSE
    LET request == _unanswered_requests[response.id]
        table == Pop(_unanswered_requests, response.id)
    IN  IF response.error # JNull
        THEN HandleError(response, table)
        ELSE
        CASE request.method = "initialize" -> HandleInitialize(response, table)
          [] request.method = "shutdown" -> HandleShutdown(response, table)
          [] OTHER ->
                LET d == DecodeResult(request.method, response.id, response.result)
                IN  Handled(_state, _send_buf, table, d.res, d.ev)

\* ------------------------------------------------ server-originated messages
\* The event classes of Client._handle_request that are ServerRequest
\* subclasses, with the required fields of each.
ServerRequestClasses ==
    [m \in {"workspace/workspaceFolders", "workspace/configuration",
            "window/showMessageRequest", "window/workDoneProgress/create",
            "client/registerCapability"} |->
        CASE m = "workspace/workspaceFolders" ->
                [cls |-> "WorkspaceFolders", fields |-> {"result"}]
          [] m = "workspace/configuration" ->
                [cls |-> "ConfigurationRequest", fields |-> {"items"}]
          [] m = "window/showMessageRequest" ->
                [cls |-> "ShowMessageRequest", fields |-> {"type", "message", "actions"}]
          [] m = "window/workDoneProgress/create" ->
                [cls |-> "WorkDoneProgressCreate", fields |-> {"token"}]
          [] OTHER ->
                [cls |-> "RegisterCapabilityRequest", fields |-> {"registrations"}]]

\* The ServerNotification subclasses, with the required fields of each.
ServerNotificationClasses ==
    [m \in {"window/showMessage", "window/logMessage",
            "textDocument/publishDiagnostics"} |->
        CASE m = "window/showMessage" ->
                [cls |-> "ShowMessage", fields |-> {"type", "message"}]
          [] m = "window/logMessage" ->
                [cls |-> "LogMessage", fields |-> {"type", "message"}]
          [] OTHER ->
                [cls |-> "PublishDiagnostics", fields |-> {"uri", "version", "diagnostics"}]]

\* MWorkDoneProgressKind and the event class of each kind.
ProgressClasses ==
    [k \in {"begin", "report", "end"} |->
        CASE k = "begin" -> "WorkDoneProgressBegin"
          [] k = "report" -> "WorkDoneProgressReport"
          [] OTHER -> "WorkDoneProgressEnd"]
ProgressFields == {"token", "value"}

\* A handler of server requests that takes the request id for the id of one
\* of the client's own requests and resolves it.
HandleRequestResolves(request) ==
    Handled(_state, _send_buf,
            [k \in DOMAIN _unanswered_requests \ {request.id} |->
                _unanswered_requests[k]],
            "ok",
            IF request.id = NoId THEN Event("ShowMessage", NoId)
            ELSE ServerRequestEvent("ConfigurationRequest", request.id))

\* Client._handle_request.  No arm touches a field of the client; a
\* ServerRequest event keeps the request id for its reply.
_handle_request(request) ==
    LET Same(res, ev) == Handled(_state, _send_buf, _unanswered_requests, res, ev)
    IN  CASE request.method \in DOMAIN ServerRequestClasses ->
                LET c == ServerRequestClasses[request.method]
                IN  IF ~Validates(c.fields, request.params)
                    THEN Same("ValidationError", NoEvent)
                    ELSE IF request.id = NoId
                    THEN Same("AssertionError", NoEvent)
                    ELSE Same("ok", ServerRequestEvent(c.cls, request.id))
          [] request.method \in DOMAIN ServerNotificationClasses ->
                LET c == ServerNotificationClasses[request.method]
                IN  IF Validates(c.fields, request.params)
                    THEN Same("ok", Event(c.cls, NoId))
                    ELSE Same("ValidationError", NoEvent)
          [] request.method = "$/progress" ->
                IF request.params = JNull
                THEN Same("AssertionError", NoEvent)
                ELSE IF "value" \notin request.params.keys
                THEN Same("KeyError", NoEvent)
                ELSE IF request.params.vkind \notin DOMAIN ProgressClasses
                THEN Same("ValueError", NoEvent)
                ELSE IF Validates(ProgressFields, request.params)
                THEN Same("ok", Event(ProgressClasses[request.params.vkind], NoId))
                ELSE Same("ValidationError", NoEvent)
          [] OTHER -> Same("NotImplementedError", NoEvent)

\* ------------------------------------------------------------------ inputs
\* Results and error objects a server may put in a response.
ResultInputs ==
    {JNull, JList, JDict(InitializedFields), JDict({"contents"}),
     JDict(HoverFields), JDict(LocationFields), JDict(SignatureHelpFields)}
ErrorInputs == {JDict({"code", "message"}), JDict(ResponseErrorFields)}
\* Responses a server may send when the id counter is `counter` and the
\* ids in `pending` await their response: for a pending id every result and
\* error object; for the other ids allocated so far, for the next id (not
\* allocated yet) and for no id, one response each (its payload is never
\* looked at).
ResponseInputs(counter, pending) ==
    {Response(i, r, JNull) : i \in pending, r \in ResultInputs}
    \cup {Response(i, JNull, e) : i \in pending, e \in ErrorInputs}
    \cup {Response(i, JNull, JNull) :
             i \in ({IntId(n) : n \in 0..counter} \cup {NoId}) \ pending}

\* The id a server gives its requests in one session: the int 0 or the
\* string "srv-7".
ServerIds == {IntId(0), StrId(7)}

\* The params that validate as the event of a method.
ValidParams(method) ==
    IF method \in DOMAIN ServerRequestClasses
    THEN JDict(ServerRequestClasses[method].fields)
    ELSE JDict(ServerNotificationClasses[method].fields)
\* Messages a server may originate: requests with well-formed params under
\* each id, requests without params or without an id, notifications with and
\* without params, progress of every kind, and a method outside the catalog.
ServerInputs(id) ==
    {Request(m, i, ValidParams(m)) : m \in DOMAIN ServerRequestClasses,
                                     i \in {id, NoId}}
    \cup {Request(m, id, JNull) : m \in DOMAIN ServerRequestClasses}
    \cup {Request(m, NoId, JNull) : m \in DOMAIN ServerNotificationClasses}
    \cup {Request(m, NoId, ValidParams(m)) : m \in DOMAIN ServerNotificationClasses}
    \cup {Request("$/progress", NoId, JProgress(ProgressFields, k)) :
             k \in {"begin", "report", "end", "other"}}
    \cup {Request("$/progress", NoId, p) : p \in {JNull, JDict({"token"})}}
    \cup {Request("workspace/applyEdit", i, JNull) : i \in {id, NoId}}

\* Methods the embedder sends through the low-level _send_request.
RawMethods == {"initialize", "shutdown", "custom/method"}

\* Besides the lifecycle calls, cancel_last_request, send and the responses
\* fed to recv, one session exercises one of: a document/query operation of
\* the facade, the low-level _send_request with one method, or the
\* server-originated messages (under one id) with their replies.
Surface ==
    [kind : {"facade"}, op : DocOps, id : {NoId}]
    \cup [kind : {"raw"}, op : RawMethods, id : {NoId}]
    \cup [kind : {"server"}, op : {""}, id : ServerIds]

\* Sessions that keep two document requests of different methods pending at
\* once: both operations are request operations of the facade.
PairSurface ==
    [kind : {"facade"}, op : {"hover", "completion"},
     op2 : {"references", "documentSymbol"}, id : {NoId}]

\* The number of ids one session may allocate: a session with two operations
\* needs one more (initialize, then one request of each).
IdBound == IF "op2" \in DOMAIN in_use THEN MaxId + 1 ELSE MaxId

\* -------------------------------------------------------------------- Init
\* The generator of a recv call: not called yet ("idle": also exhausted or
\* ended by an exception), created and not started, or suspended at a yield.
\* `data` is the argument of the call, `before` the bytes fed before it.
Idle == [pc |-> "idle", data |-> <<>>, before |-> 0]

EmptyTable == [k \in {} |-> NoId]

\* A constructor that waits for the initialize response it never asked for.
InitAlwaysWaits(auto) ==
    LET r == _send_request(0, <<>>, EmptyTable, "initialize")
    IN  IF auto
        THEN [_state |-> "WAITING_FOR_INITIALIZED", _id_counter |-> r._id_counter,
              _send_buf |-> r._send_buf,
              _unanswered_requests |-> r._unanswered_requests,
              allocated |-> <<r.id>>]
        ELSE [_state |-> "WAITING_FOR_INITIALIZED", _id_counter |-> 0,
              _send_buf |-> <<>>, _unanswered_requests |-> EmptyTable,
              allocated |-> <<>>]

\* Client.__init__: the fields are set; with initialize=True the initialize
\* request is then sent and the client waits for its response.
__init__(auto) ==
    LET r == _send_request(0, <<>>, EmptyTable, "initialize")
    IN  IF auto
        THEN [_state |-> "WAITING_FOR_INITIALIZED", _id_counter |-> r._id_counter,
              _send_buf |-> r._send_buf,
              _unanswered_requests |-> r._unanswered_requests,
              allocated |-> <<r.id>>]
        ELSE [_state |-> "NOT_INITIALIZED", _id_counter |-> 0, _send_buf |-> <<>>,
              _unanswered_requests |-> EmptyTable, allocated |-> <<>>]

Init ==
    /\ in_use \in Surface
    /\ held = {}
    /\ replied = {}
    /\ _recv_buf = <<>>
    /\ dispatched = {}
    /\ msgs = <<>>
    /\ wire = <<>>
    /\ fed = 0
    /\ gen = Idle
    /\ log = <<>>
    /\ last = Outcome("__init__", "ok", NoId, NoEvent)
    /\ initialize \in BOOLEAN
    /\    LET c == __init__(initialize)
          IN  /\ _state = c._state
              /\ _id_counter = c._id_counter
              /\ _send_buf = c._send_buf
              /\ _unanswered_requests = c._unanswered_requests
              /\ allocated = c.allocated

\* ----------------------------------------------------------------- actions
\* A call that raises before touching the client.
Fails(op, exc) ==
    /\ last' = Outcome(op, exc, NoId, NoEvent)
    /\ UNCHANGED <<client, env, feed, events, history>>

\* did_open, did_change, will_save, did_save, did_close,
\* did_change_configuration, did_change_workspace_folders.
DocNotification(op) ==
    /\ in_use.kind = "facade"
    /\ op \in DOMAIN NotificationOps
    /\ IF ~AssertState("NORMAL")
       THEN Fails(op, "AssertionError")
       ELSE /\ Len(_send_buf) < MaxSend
            /\ _send_buf' = _send_notification(_send_buf, NotificationOps[op], NoId)
            /\ last' = Outcome(op, "ok", NoId, NoEvent)
            /\ UNCHANGED <<_state, _recv_buf, _unanswered_requests, _id_counter,
                           env, feed, events, history>>

\* The fields after a successful _send_request, and its history.
Sent(r) ==
    /\ _id_counter' = r._id_counter
    /\ _send_buf' = r._send_buf
    /\ _unanswered_requests' = r._unanswered_requests
    /\ allocated' = Append(allocated, r.id)

\* completion, rename, hover, ..., rangeFormatting, will_save_wait_until.
DocRequest(op) ==
    /\ in_use.kind = "facade"
    /\ op \in DOMAIN RequestOps
    /\ IF ~AssertState("NORMAL")
       THEN Fails(op, "AssertionError")
       ELSE /\ Len(_send_buf) < MaxSend
            /\ _id_counter < IdBound
            /\ LET r == _send_request(_id_counter, _send_buf, _unanswered_requests,
                                      RequestOps[op])
               IN  /\ Sent(r)
                   /\ last' = Outcome(op, "ok", IF ReturnsId(op) THEN r.id ELSE NoId,
                                      NoEvent)
            /\ UNCHANGED <<_state, _recv_buf, env, feed, events, dispatched>>

\* Client.shutdown.
Shutdown ==
    IF ~AssertState("NORMAL")
    THEN Fails("shutdown", "AssertionError")
    ELSE /\ Len(_send_buf) < MaxSend
         /\ _id_counter < IdBound
         /\ Sent(_send_request(_id_counter, _send_buf, _unanswered_requests, "shutdown"))
         /\ _state' = "WAITING_FOR_SHUTDOWN"
         /\ last' = Outcome("shutdown", "ok", NoId, NoEvent)
         /\ UNCHANGED <<_recv_buf, env, feed, events, dispatched>>

\* An exit that sets the state and queues nothing.
ExitWithoutNotification ==
    IF ~AssertState("SHUTDOWN")
    THEN Fails("exit", "AssertionError")
    ELSE /\ _state' = "EXITED"
         /\ last' = Outcome("exit", "ok", NoId, NoEvent)
         /\ UNCHANGED <<_send_buf, _recv_buf, _unanswered_requests, _id_counter,
                        env, feed, events, history>>

\* Client.exit.
Exit ==
    IF ~AssertState("SHUTDOWN")
    THEN Fails("exit", "AssertionError")
    ELSE /\ Len(_send_buf) < MaxSend
         /\ _send_buf' = _send_notification(_send_buf, "exit", NoId)
         /\ _state' = "EXITED"
         /\ last' = Outcome("exit", "ok", NoId, NoEvent)
         /\ UNCHANGED <<_recv_buf, _unanswered_requests, _id_counter, env, feed, events,
                        history>>

\* A cancel_last_request that also forgets the request it cancels.
CancelRemovesEntry ==
    LET id == IntId(_id_counter - 1)
    IN  /\ Len(_send_buf) < MaxSend
        /\ _send_buf' = _send_notification(_send_buf, "$/cancelRequest", id)
        /\ _unanswered_requests' =
              [k \in DOMAIN _unanswered_requests \ {id} |-> _unanswered_requests[k]]
        /\ last' = Outcome("cancel_last_request", "ok", NoId, NoEvent)
        /\ UNCHANGED <<_state, _recv_buf, _id_counter, env, feed, events, history>>

\* Client.cancel_last_request.
CancelLastRequest ==
    /\ Len(_send_buf) < MaxSend
    /\ _send_buf' = _send_notification(_send_buf, "$/cancelRequest",
                                       IntId(_id_counter - 1))
    /\ last' = Outcome("cancel_last_request", "ok", NoId, NoEvent)
    /\ UNCHANGED <<_state, _recv_buf, _unanswered_requests, _id_counter, env, feed, events,
                   history>>

\* The embedder calls _send_request itself, for a method the facade lacks.
RawRequest(method) ==
    /\ in_use.kind = "raw"
    /\ Len(_send_buf) < MaxSend
    /\ _id_counter < IdBound
    /\ LET r == _send_request(_id_counter, _send_buf, _unanswered_requests, method)
       IN  /\ Sent(r)
           /\ last' = Outcome("_send_request", "ok", r.id, NoEvent)
    /\ UNCHANGED <<_state, _recv_buf, env, feed, events, dispatched>>

\* A send that hands out the send buffer without clearing it.
SendKeeps ==
    /\ last' = [Outcome("send", "ok", NoId, NoEvent) EXCEPT !.out = _send_buf]
    /\ UNCHANGED <<client, env, feed, events, history>>

\* Client.send: hand out the send buffer and clear it.
Send ==
    LET send_buf == _send_buf
    IN  /\ _send_buf' = <<>>
        /\ last' = [Outcome("send", "ok", NoId, NoEvent) EXCEPT !.out = send_buf]
        /\ UNCHANGED <<_state, _recv_buf, _unanswered_requests, _id_counter, env, feed,
                       events, history>>

\* The body of the loop of Client.recv for the message p of the decoder.
Handle(message) ==
    IF message.type = "Response"
    THEN _handle_response(message)
    ELSE _handle_request(message)

\* One turn of the loop of Client.recv: the decoder has taken p.message off
\* the buffer and left p.rest; the handler runs and its event is yielded or
\* its exception leaves the generator.
Yield(p) ==
    LET h == Handle(p.message)
    IN  /\ Len(h._send_buf) <= MaxSend
        /\ _recv_buf' = p.rest
        /\ _state' = h._state
        /\ _send_buf' = h._send_buf
        /\ _unanswered_requests' = h._unanswered_requests
        /\ held' = IF h.ev._id # NoId THEN held \cup {h.ev._id} ELSE held
        /\ replied' = IF h.ev._id # NoId THEN replied \ {h.ev._id} ELSE replied
        /\ dispatched' = IF p.message.type = "Response"
                            /\ p.message.id \in Range(allocated)
                         THEN dispatched \cup {p.message.id}
                         ELSE dispatched
        /\ last' = Outcome("recv", h.res,
                            IF h.res = "NotImplementedError" THEN p.message.id
                            ELSE NoId,
                            h.ev)
        /\ UNCHANGED <<_id_counter, env, allocated>>

\* Client.recv, iterated to its end by the embedder (`for event in
\* client.recv(frame)`), for the bytes of one complete frame: the frame is
\* appended to the receive buffer, parsed off it and handled.
Recv(message) ==
    LET p == _parse_messages(_recv_buf \o Encode(message))
    IN  /\ p.status = "message"
        /\ Yield(p)
        /\ UNCHANGED feed

\* client.recv(data) with the next k bytes of the stream.  recv is a
\* generator function: the call runs none of its body.
FeedCall(k) ==
    /\ gen.pc = "idle"
    /\ fed + k <= Len(wire)
    /\ k = 0 => _recv_buf # <<>>
    /\ gen' = [pc |-> "created", data |-> SubSeq(wire, fed + 1, fed + k),
               before |-> fed]
    /\ fed' = fed + k
    /\ UNCHANGED <<client, env, events, last, history, msgs, wire, log>>

\* What recv did with one frame: the message the decoder produced and the
\* event yielded or the exception raised.
Logged(message, res, ev) == [message |-> message, res |-> res, ev |-> ev]

\* next() on the generator.  The first one runs `self._recv_buf += data`;
\* each asks the decoder for one message and handles it.  The generator ends
\* when the decoder has no complete frame left, and when the decoder or the
\* handler raises.
FeedNext ==
    /\ gen.pc \in {"created", "running"}
    /\ LET buf == IF gen.pc = "created" THEN _recv_buf \o gen.data ELSE _recv_buf
           p == _parse_messages(buf)
           Stops(exc) ==
               /\ _recv_buf' = p.rest
               /\ last' = Outcome("recv", exc, NoId, NoEvent)
               /\ gen' = Idle
               /\ UNCHANGED <<_state, _send_buf, _unanswered_requests, _id_counter,
                              env, events, history>>
       IN  CASE p.status = "message" ->
                    LET h == Handle(p.message)
                    IN  /\ Yield(p)
                        /\ gen' = IF h.res = "ok"
                                  THEN [gen EXCEPT !.pc = "running"]
                                  ELSE Idle
                        /\ log' = Append(log, Logged(p.message, h.res, h.ev))
             [] p.status = "incomplete" ->
                    /\ Stops("StopIteration")
                    /\ log' = log
             [] p.status = "JSONDecodeError" ->
                    /\ Stops(p.status)
                    /\ log' = Append(log, Logged(p.message, p.status, NoEvent))
             [] OTHER ->
                    /\ Stops(p.status)
                    /\ log' = log
    /\ UNCHANGED <<msgs, wire, fed>>

\* reply() of a ServerRequest event the embedder holds.
Reply(id) ==
    /\ id \in held
    /\ Len(_send_buf) < MaxSend
    /\ _send_buf' = _send_response(_send_buf, id)
    /\ replied' = replied \cup {id}
    /\ last' = Outcome("reply", "ok", NoId, NoEvent)
    /\ UNCHANGED <<_state, _recv_buf, _unanswered_requests, _id_counter, env, feed, held,
                   history>>

\* The embedder answers a server request that recv refused with
\* NotImplementedError: client._send_response(id, error=...) with the id of
\* the request the exception carries.
RawResponse ==
    /\ in_use.kind = "server"
    /\ last.op = "recv"
    /\ last.res = "NotImplementedError"
    /\ last.ret # NoId
    /\ Len(_send_buf) < MaxSend
    /\ _send_buf' = _send_response(_send_buf, last.ret)
    /\ last' = Outcome("_send_response", "ok", NoId, NoEvent)
    /\ UNCHANGED <<_state, _recv_buf, _unanswered_requests, _id_counter, env, feed, events,
                   history>>

Next ==
    \/ DocNotification(in_use.op)
    \/ DocRequest(in_use.op)
    \/ Shutdown
    \/ Exit
    \/ CancelLastRequest
    \/ RawRequest(in_use.op)
    \/ Send
    \/ \E message \in ResponseInputs(_id_counter, DOMAIN _unanswered_requests) :
          Recv(message)
    \/ in_use.kind = "server" /\ \E message \in ServerInputs(in_use.id) : Recv(message)
    \/ \E id \in held : Reply(id)
    \/ RawResponse

Spec == Init /\ [][Next]_vars

\* The sessions of PairSurface: a client constructed with initialize=True,
\* the two request operations, the lifecycle calls, send and the responses.
InitPair ==
    /\ in_use \in PairSurface
    /\ held = {}
    /\ replied = {}
    /\ _recv_buf = <<>>
    /\ dispatched = {}
    /\ msgs = <<>>
    /\ wire = <<>>
    /\ fed = 0
    /\ gen = Idle
    /\ log = <<>>
    /\ last = Outcome("__init__", "ok", NoId, NoEvent)
    /\ initialize = TRUE
    /\    LET c == __init__(initialize)
          IN  /\ _state = c._state
              /\ _id_counter = c._id_counter
              /\ _send_buf = c._send_buf
              /\ _unanswered_requests = c._unanswered_requests
              /\ allocated = c.allocated

NextPair ==
    \/ DocRequest(in_use.op)
    \/ DocRequest(in_use.op2)
    \/ Shutdown
    \/ Exit
    \/ Send
    \/ \E message \in ResponseInputs(_id_counter, DOMAIN _unanswered_requests) :
          Recv(message)

SpecPair == InitPair /\ [][NextPair]_vars

\* The bodies of an inbound stream: the response to the initialize request,
\* a notification, a request for a method outside the catalog, and a body
\* that is not JSON.
FeedInputs ==
    {Response(IntId(0), JDict(InitializedFields), JNull),
     Request("window/showMessage", NoId, ValidParams("window/showMessage")),
     Request("workspace/applyEdit", StrId(7), JNull),
     NotJson}

RECURSIVE Seqs(_)
Seqs(n) ==
    IF n = 0 THEN {<<>>}
    ELSE Seqs(n - 1) \cup {Append(ms, m) : ms \in Seqs(n - 1), m \in FeedInputs}

\* The sessions that read a byte stream: a client constructed with
\* initialize=True and a stream of one to MaxFrames frames, fed in chunks.
InitFeed ==
    /\ in_use = [kind |-> "feed"]
    /\ held = {}
    /\ replied = {}
    /\ _recv_buf = <<>>
    /\ dispatched = {}
    /\ msgs \in Seqs(MaxFrames) \ {<<>>}
    /\ wire = Stream(msgs)
    /\ fed = 0
    /\ gen = Idle
    /\ log = <<>>
    /\ last = Outcome("__init__", "ok", NoId, NoEvent)
    /\ initialize = TRUE
    /\    LET c == __init__(initialize)
          IN  /\ _state = c._state
              /\ _id_counter = c._id_counter
              /\ _send_buf = c._send_buf
              /\ _unanswered_requests = c._unanswered_requests
              /\ allocated = c.allocated

NextFeed ==
    \/ \E k \in 0..Len(wire) : FeedCall(k)
    \/ FeedNext

SpecFeed == InitFeed /\ [][NextFeed]_vars

\* The embedder drops the generator of a recv call: without ever calling
\* next() on it, or after some of its events.  Nothing of the client changes.
Abandon ==
    /\ gen.pc \in {"created", "running"}
    /\ gen' = Idle
    /\ UNCHANGED <<client, env, events, last, history, msgs, wire, fed, log>>

\* The sessions of SpecFeed with an embedder that need not iterate what recv
\* returns.
NextLazy ==
    \/ NextFeed
    \/ Abandon

SpecLazy == InitFeed /\ [][NextLazy]_vars

TypeOK ==
    /\ _state \in ClientState
    /\ _id_counter \in 0..IdBound
    /\ Len(_send_buf) <= MaxSend

\* ---------------------------------------------------------------- properties
\* The responses a server can send in the current state.
Responses == ResponseInputs(_id_counter, DOMAIN _unanswered_requests)

\* `message` answers a pending request of the given method.
Answers(message, method) ==
    /\ message.id \in DOMAIN _unanswered_requests
    /\ _unanswered_requests[message.id].method = method

\* The frames of the handshake.
InitializeFrame == _make_request("initialize", NoId, IntId(0))
InitializedFrame == _make_request("initialized", NoId, NoId)

\* A call failed with the invalid-state error and left the lifecycle state,
\* the send buffer, the id counter and the correlation table as they were.
InvalidState ==
    /\ last'.res = "AssertionError"
    /\ UNCHANGED <<_send_buf, _id_counter, _unanswered_requests, _state>>

\* C1: in every reachable state the keys of the correlation table are exactly
\* the allocated ids whose response has not been dispatched yet.
C1_TableIsAllocatedMinusDispatched ==
    DOMAIN _unanswered_requests = Range(allocated) \ dispatched
C1_Witness ==
    /\ dispatched # {}
    /\ DOMAIN _unanswered_requests # {}
    /\ Len(allocated) >= 2

\* C2: the ids allocated in a session are 0, 1, 2, ... in this order: the
\* k-th allocated id is the integer k-1, whatever happened in between.
C2_IdsCountUpFromZero ==
    \A i \in DOMAIN allocated : allocated[i] = IntId(i - 1)
C2_Witness ==
    /\ Len(allocated) >= 2
    /\ dispatched # {}
    /\ last.op = "cancel_last_request"

\* C3: a document or query operation invoked in a state other than NORMAL
\* fails with the invalid-state error and changes neither the send buffer,
\* the id counter, the correlation table nor the lifecycle state.
C3_DocOpsNeedNormal ==
    [][\A op \in DocOps :
          ((DocNotification(op) \/ DocRequest(op)) /\ _state # "NORMAL")
              => InvalidState]_vars
C3_Witness ==
    /\ last.op \in DocOps
    /\ last.res = "AssertionError"
    /\ _state = "EXITED"

\* C4: shutdown() succeeds only in NORMAL and exit() only in SHUTDOWN; in
\* every other state each fails with the invalid-state error and changes
\* neither the lifecycle state, the send buffer, the id counter nor the table.
C4_ShutdownAndExitGated ==
    [][/\ (Shutdown /\ _state # "NORMAL") => InvalidState
       /\ (Exit /\ _state # "SHUTDOWN") => InvalidState
       /\ (Shutdown /\ last'.res = "ok") => _state = "NORMAL"
       /\ (Exit /\ last'.res = "ok") => _state = "SHUTDOWN"]_vars
C4_Witness ==
    /\ last.op = "shutdown"
    /\ last.res = "AssertionError"
    /\ _state = "WAITING_FOR_SHUTDOWN"

\* C5: a client constructed with initialize=True starts with exactly the
\* initialize request (id 0) in its send buffer and exactly the entry of id 0
\* (method initialize) in its table; feeding the success response to it (a
\* result that carries capabilities) makes the state NORMAL, yields an
\* Initialized event and appends the initialized notification, and nothing
\* else, to the send buffer.
C5_AutoInitializeHandshake ==
    /\ [](last.op = "__init__" /\ initialize =>
            /\ _send_buf = <<InitializeFrame>>
            /\ DOMAIN _unanswered_requests = {IntId(0)}
            /\ _unanswered_requests[IntId(0)].method = "initialize")
    /\ [][\A m \in Responses :
            (/\ initialize
             /\ _state = "WAITING_FOR_INITIALIZED"
             /\ m.id = IntId(0)
             /\ m.error = JNull
             /\ Validates(InitializedFields, m.result)
             /\ Answers(m, "initialize")
             /\ Recv(m))
                => /\ _state' = "NORMAL"
                   /\ last'.res = "ok"
                   /\ last'.ev = Event("Initialized", NoId)
                   /\ _send_buf' = Append(_send_buf, InitializedFrame)]_vars
C5_Witness ==
    /\ initialize
    /\ _state = "NORMAL"
    /\ last.op = "recv"
    /\ last.ev.type = "Initialized"
    /\ _send_buf = <<InitializeFrame, InitializedFrame>>

\* C6: the state after construction is a function of the initialize argument
\* alone: with it, WAITING_FOR_INITIALIZED and an initialize request queued;
\* without it, NOT_INITIALIZED, an empty send buffer, an empty table and the
\* id counter at 0.
C6_InitialStateFollowsFlag ==
    last.op = "__init__" =>
        IF initialize
        THEN /\ _state = "WAITING_FOR_INITIALIZED"
             /\ _send_buf = <<InitializeFrame>>
        ELSE /\ _state = "NOT_INITIALIZED"
             /\ _send_buf = <<>>
             /\ _unanswered_requests = EmptyTable
             /\ _id_counter = 0
C6_Witness ==
    /\ last.op = "__init__"
    /\ ~initialize
    /\ _state = "NOT_INITIALIZED"
    /\ _unanswered_requests = EmptyTable

\* C7: every step leaves the lifecycle state as it was or is one of the four
\* transitions: WAITING_FOR_INITIALIZED to NORMAL on a success response to
\* initialize, NORMAL to WAITING_FOR_SHUTDOWN on shutdown(),
\* WAITING_FOR_SHUTDOWN to SHUTDOWN on the response to shutdown, SHUTDOWN to
\* EXITED on exit().
C7_OnlyFourTransitions ==
    [][\/ _state' = _state
       \/ /\ _state = "WAITING_FOR_INITIALIZED"
          /\ _state' = "NORMAL"
          /\ \E m \in Responses :
                m.error = JNull /\ Answers(m, "initialize") /\ Recv(m)
       \/ /\ _state = "NORMAL"
          /\ _state' = "WAITING_FOR_SHUTDOWN"
          /\ Shutdown
       \/ /\ _state = "WAITING_FOR_SHUTDOWN"
          /\ _state' = "SHUTDOWN"
          /\ \E m \in Responses : Answers(m, "shutdown") /\ Recv(m)
       \/ /\ _state = "SHUTDOWN"
          /\ _state' = "EXITED"
          /\ Exit]_vars
C7_Witness ==
    /\ _state = "EXITED"
    /\ last.op = "exit"
    /\ last.res = "ok"

\* C8: a success response to the pending shutdown request, dispatched in
\* WAITING_FOR_SHUTDOWN, yields a Shutdown event, makes the state SHUTDOWN and
\* leaves the send buffer as it was (no exit notification is queued).
C8_ShutdownSuccess ==
    [][\A m \in Responses :
          (/\ _state = "WAITING_FOR_SHUTDOWN"
           /\ m.error = JNull
           /\ Answers(m, "shutdown")
           /\ Recv(m))
              => /\ last'.ev = Event("Shutdown", NoId)
                 /\ _state' = "SHUTDOWN"
                 /\ _send_buf' = _send_buf]_vars
C8_Witness ==
    /\ _state = "SHUTDOWN"
    /\ last.op = "recv"
    /\ last.ev.type = "Shutdown"
    /\ _send_buf # <<>>

\* C9 as stated: whenever the response to the pending shutdown request is
\* received in WAITING_FOR_SHUTDOWN, success or error, the state becomes
\* SHUTDOWN.
C9_AnyShutdownResponseShutsDown ==
    [][\A m \in Responses :
          (_state = "WAITING_FOR_SHUTDOWN" /\ Answers(m, "shutdown") /\ Recv(m))
              => _state' = "SHUTDOWN"]_vars

\* C9: when the response to the pending shutdown request is received in
\* WAITING_FOR_SHUTDOWN, a success response makes the state SHUTDOWN; an
\* error response leaves it WAITING_FOR_SHUTDOWN, and the shutdown request is
\* no longer pending.
C9_ShutdownResponseBySuccess ==
    [][\A m \in Responses :
          (_state = "WAITING_FOR_SHUTDOWN" /\ Answers(m, "shutdown") /\ Recv(m))
              => /\ _state' = IF m.error = JNull THEN "SHUTDOWN"
                              ELSE "WAITING_FOR_SHUTDOWN"
                 /\ m.id \notin DOMAIN _unanswered_requests']_vars
C9_Witness ==
    /\ _state = "WAITING_FOR_SHUTDOWN"
    /\ last.op = "recv"
    /\ \A id \in DOMAIN _unanswered_requests :
          _unanswered_requests[id].method # "shutdown"

\* C10: an error response to the pending initialize request, received in
\* WAITING_FOR_INITIALIZED, leaves the lifecycle state and the send buffer
\* unchanged and yields a ResponseError event.
C10_InitializeError ==
    [][\A m \in Responses :
          (/\ _state = "WAITING_FOR_INITIALIZED"
           /\ m.error # JNull
           /\ Answers(m, "initialize")
           /\ Recv(m))
              => /\ _state' = _state
                 /\ _send_buf' = _send_buf
                 /\ last'.ev.type = "ResponseError"]_vars

\* C11: a response with an error object that answers a pending request yields
\* a ResponseError event whose message_id is the id of the request, removes
\* the id from the correlation table and changes neither the lifecycle state
\* nor the send buffer.
C11_ErrorResponse ==
    [][\A m \in Responses :
          (m.error # JNull /\ m.id \in DOMAIN _unanswered_requests /\ Recv(m))
              => /\ last'.res = "ok"
                 /\ last'.ev = Event("ResponseError", m.id)
                 /\ DOMAIN _unanswered_requests' = DOMAIN _unanswered_requests \ {m.id}
                 /\ _state' = _state
                 /\ _send_buf' = _send_buf]_vars

\* C12: a response whose id is not a key of the correlation table makes recv
\* raise (KeyError for an id that was never allocated or is already
\* answered); no event is yielded and the correlation table, the id counter,
\* the lifecycle state and the send buffer stay as they were.
C12_UnknownResponseId ==
    [][\A m \in Responses :
          (m.id \notin DOMAIN _unanswered_requests /\ Recv(m))
              => /\ last'.res # "ok"
                 /\ m.id # NoId => last'.res = "KeyError"
                 /\ last'.ev = NoEvent
                 /\ UNCHANGED <<_unanswered_requests, _id_counter, _state, _send_buf>>]_vars
C12_Witness ==
    /\ last.op = "recv"
    /\ last.res = "KeyError"
    /\ dispatched # {}
    /\ DOMAIN _unanswered_requests # {}

\* The methods of the request operations of the facade.
DocMethods == {RequestOps[op] : op \in DOMAIN RequestOps}

\* C13: with requests of different methods pending, a success response to a
\* document request is decoded by the decoder of the method recorded under
\* its own id, whatever the order of arrival; the event yielded carries that
\* id, and the id leaves the correlation table.
C13_CorrelatedById ==
    [][\A m \in Responses :
          (/\ m.error = JNull
           /\ m.id \in DOMAIN _unanswered_requests
           /\ _unanswered_requests[m.id].method \in DocMethods
           /\ \E other \in DOMAIN _unanswered_requests :
                 _unanswered_requests[other].method
                     # _unanswered_requests[m.id].method
           /\ Recv(m))
              => LET d == DecodeResult(_unanswered_requests[m.id].method,
                                       m.id, m.result)
                 IN  /\ last'.res = d.res
                     /\ last'.ev = d.ev
                     /\ last'.ev # NoEvent => last'.ev.message_id = m.id
                     /\ DOMAIN _unanswered_requests'
                            = DOMAIN _unanswered_requests \ {m.id}]_vars

\* seq is an initial part of longer.
IsPrefix(seq, longer) ==
    /\ Len(seq) <= Len(longer)
    /\ SubSeq(longer, 1, Len(seq)) = seq

\* C14: send returns the frames appended since the previous send, in the
\* order they were appended, and leaves the send buffer empty; every other
\* step only appends to the send buffer.  Hence the returns of all sends,
\* followed by the send buffer, are the frames appended so far in order, each
\* handed out once, and a send right after a send returns nothing.
C14_DrainExactlyOnce ==
    [][/\ Send => (last'.out = _send_buf /\ _send_buf' = <<>>)
       /\ last'.op # "send" => (last'.out = <<>> /\ IsPrefix(_send_buf, _send_buf'))
       /\ (Send /\ last.op = "send") => last'.out = <<>>]_vars
C14_Witness ==
    /\ last.op = "send"
    /\ last.out = <<InitializeFrame, InitializedFrame>>
    /\ _send_buf = <<>>

\* The server-originated messages fed in this session.
ServerMessages == IF in_use.kind = "server" THEN ServerInputs(in_use.id) ELSE {}

\* C15: recv and send are accepted in every lifecycle state: feeding a
\* message that carries an id never fails on an assertion (the only
\* assertions left are those on the lifecycle state), and send always
\* succeeds and changes neither the lifecycle state, the id counter, the
\* correlation table nor the receive buffer.
C15_FeedAndDrainAlwaysLegal ==
    [][/\ \A m \in Responses \cup ServerMessages :
             (m.id # NoId /\ Recv(m)) => last'.res # "AssertionError"
       /\ Send => /\ last'.res = "ok"
                  /\ UNCHANGED <<_state, _id_counter, _unanswered_requests,
                                 _recv_buf>>]_vars

\* The id most recently allocated (some id has been allocated).
LastAllocated == allocated[Len(allocated)]

\* C16: once a request has been sent, cancel_last_request appends exactly
\* one $/cancelRequest notification naming the id most recently allocated
\* and changes neither the correlation table, the id counter nor the
\* lifecycle state; a response that then arrives for the cancelled id is
\* dispatched and removes the entry.
C16_CancelLastRequest ==
    [][/\ (CancelLastRequest /\ allocated # <<>>)
             => /\ _send_buf' = Append(_send_buf,
                       _make_request("$/cancelRequest", LastAllocated, NoId))
                /\ UNCHANGED <<_unanswered_requests, _id_counter, _state>>
       /\ \A m \in Responses :
             (/\ last.op = "cancel_last_request"
              /\ allocated # <<>>
              /\ m.id = LastAllocated
              /\ m.id \in DOMAIN _unanswered_requests
              /\ Recv(m))
                 => /\ m.id \in dispatched'
                    /\ m.id \notin DOMAIN _unanswered_requests']_vars
C16_Witness ==
    /\ last.op = "recv"
    /\ allocated # <<>>
    /\ \E i \in DOMAIN _send_buf :
          /\ _send_buf[i].method = "$/cancelRequest"
          /\ _send_buf[i].arg = LastAllocated
          /\ _send_buf[i].arg \in dispatched
          /\ _send_buf[i].arg \notin DOMAIN _unanswered_requests

\* C17: a server request with an id (int or string) yields the event of its
\* method holding that id, also a workspace/workspaceFolders request without
\* params, and changes no field of the client; reply on the event appends
\* exactly one response with that id and changes neither the correlation
\* table, the id counter nor the lifecycle state.
C17_ServerRequestAndReply ==
    [][/\ \A m \in ServerMessages :
             (/\ m.id # NoId
              /\ m.method \in DOMAIN ServerRequestClasses
              /\ \/ m.params = ValidParams(m.method)
                 \/ m.method = "workspace/workspaceFolders"
              /\ Recv(m))
                 => /\ last'.res = "ok"
                    /\ last'.ev = ServerRequestEvent(
                                      ServerRequestClasses[m.method].cls, m.id)
                    /\ UNCHANGED <<_unanswered_requests, _id_counter, _state,
                                   _send_buf>>
       /\ \A id \in held :
             Reply(id)
                 => /\ _send_buf' = Append(_send_buf, _make_response(id))
                    /\ UNCHANGED <<_unanswered_requests, _id_counter, _state>>]_vars

\* C18: reply on an event that has been replied to already is rejected and
\* appends nothing to the send buffer.
C18_ReplyAtMostOnce ==
    [][\A id \in held :
          (id \in replied /\ Reply(id))
              => (last'.res # "ok" /\ _send_buf' = _send_buf)]_vars

\* C19: every request operation of the facade returns the id it allocated
\* (the key of the new entry of the correlation table and the id of the frame
\* it queued), and every notification operation returns nothing.
C19_RequestsReturnTheirId ==
    [][\A op \in DocOps :
          /\ (DocRequest(op) /\ _state = "NORMAL")
                => /\ last'.ret = IntId(_id_counter)
                   /\ DOMAIN _unanswered_requests'
                          = DOMAIN _unanswered_requests \cup {last'.ret}
                   /\ _send_buf'[Len(_send_buf')].id = last'.ret
          /\ (DocNotification(op) /\ _state = "NORMAL") => last'.ret = NoId]_vars

\* C20: _send_request with any method, in any lifecycle state, returns the
\* next id of the counter, increments the counter, records the method under
\* that id in the correlation table and appends one request frame; the
\* lifecycle state is not consulted and not changed.
C20_RawRequest ==
    [][\A method \in RawMethods :
          RawRequest(method)
              => LET id == IntId(_id_counter)
                 IN  /\ last'.res = "ok"
                     /\ last'.ret = id
                     /\ _id_counter' = _id_counter + 1
                     /\ DOMAIN _unanswered_requests'
                            = DOMAIN _unanswered_requests \cup {id}
                     /\ _unanswered_requests'[id].method = method
                     /\ \A k \in DOMAIN _unanswered_requests :
                           _unanswered_requests'[k] = _unanswered_requests[k]
                     /\ _send_buf' = Append(_send_buf,
                                            _make_request(method, NoId, id))
                     /\ _state' = _state]_vars
C20_Witness ==
    /\ last.op = "_send_request"
    /\ _state = "NOT_INITIALIZED"
    /\ last.ret \in DOMAIN _unanswered_requests
    /\ _unanswered_requests[last.ret].method = "custom/method"

\* C21: in NORMAL, a success response to a pending hover request, with the
\* result {"contents": ...} or with a null result, yields a Hover event whose
\* message_id is the id of the request and removes the id from the
\* correlation table.
C21_HoverRoundTrip ==
    [][\A m \in Responses :
          (/\ _state = "NORMAL"
           /\ m.error = JNull
           /\ m.result \in {JDict({"contents"}), JNull}
           /\ Answers(m, "textDocument/hover")
           /\ Recv(m))
              => /\ last'.res = "ok"
                 /\ last'.ev = Event("Hover", m.id)
                 /\ m.id \notin DOMAIN _unanswered_requests']_vars

\* C22: from NORMAL, shutdown() moves to WAITING_FOR_SHUTDOWN and queues one
\* shutdown request; the success response to it yields Shutdown and moves to
\* SHUTDOWN; exit() then moves to EXITED and queues one exit notification;
\* from then on the state stays EXITED and every document or query operation
\* fails with the invalid-state error.
C22_ShutdownThenExit ==
    [][/\ (Shutdown /\ _state = "NORMAL")
             => /\ _state' = "WAITING_FOR_SHUTDOWN"
                /\ _send_buf' = Append(_send_buf,
                       _make_request("shutdown", NoId, IntId(_id_counter)))
       /\ \A m \in Responses :
             (/\ _state = "WAITING_FOR_SHUTDOWN"
              /\ m.error = JNull
              /\ Answers(m, "shutdown")
              /\ Recv(m))
                 => (last'.ev.type = "Shutdown" /\ _state' = "SHUTDOWN")
       /\ (Exit /\ _state = "SHUTDOWN")
             => /\ _state' = "EXITED"
                /\ _send_buf' = Append(_send_buf,
                                       _make_request("exit", NoId, NoId))
       /\ _state = "EXITED"
             => /\ _state' = "EXITED"
                /\ \A op \in DocOps :
                      (DocNotification(op) \/ DocRequest(op)) => InvalidState]_vars
C22_Witness ==
    /\ _state = "EXITED"
    /\ last.op = "hover"
    /\ last.res = "AssertionError"
    /\ Len(allocated) = 2
    /\ Range(allocated) = dispatched

\* C23: a success response to a pending document request whose result fails
\* the decoder of its method yields an event attached to the id of the
\* request (the failure is not raised out of recv) and removes the id from
\* the correlation table.
C23_DecodeErrorIsAnEvent ==
    [][\A m \in Responses :
          (/\ m.error = JNull
           /\ m.id \in DOMAIN _unanswered_requests
           /\ _unanswered_requests[m.id].method \in DocMethods
           /\ DecodeResult(_unanswered_requests[m.id].method, m.id, m.result).res
                  = "ValidationError"
           /\ Recv(m))
              => /\ last'.res = "ok"
                 /\ last'.ev # NoEvent
                 /\ last'.ev.message_id = m.id
                 /\ m.id \notin DOMAIN _unanswered_requests']_vars

\* The params a well-formed server message of the method carries: those of
\* ValidParams, and none for workspace/workspaceFolders (LSP gives it none).
WellFormed(m) ==
    \/ /\ m.method \in DOMAIN ServerRequestClasses
       /\ m.id # NoId
       /\ \/ m.params = ValidParams(m.method)
          \/ m.method = "workspace/workspaceFolders" /\ m.params = JNull
    \/ /\ m.method \in DOMAIN ServerNotificationClasses
       /\ m.params = ValidParams(m.method)
    \/ /\ m.method = "$/progress"
       /\ m.params.kind = "dict"
       /\ m.params.keys = ProgressFields
       /\ m.params.vkind \in DOMAIN ProgressClasses

\* C24: a well-formed server message is dispatched on its method: the five
\* server requests yield their event holding the request id, the three
\* notifications yield their event without an id, $/progress yields the event
\* of value.kind; no field of the client changes.
C24_ServerDispatch ==
    [][\A m \in ServerMessages :
          (WellFormed(m) /\ Recv(m))
              => /\ last'.res = "ok"
                 /\ last'.ev =
                       CASE m.method \in DOMAIN ServerRequestClasses ->
                               ServerRequestEvent(
                                   ServerRequestClasses[m.method].cls, m.id)
                         [] m.method \in DOMAIN ServerNotificationClasses ->
                               Event(ServerNotificationClasses[m.method].cls, NoId)
                         [] OTHER ->
                               Event(ProgressClasses[m.params.vkind], NoId)
                 /\ UNCHANGED <<_state, _id_counter, _unanswered_requests,
                                _send_buf>>]_vars

\* The methods Client._handle_request knows.
Catalog ==
    DOMAIN ServerRequestClasses \cup DOMAIN ServerNotificationClasses
        \cup {"$/progress"}

\* C25: a server request whose method is not in the catalog yields an event
\* or makes recv raise NotImplementedError, and changes neither the lifecycle
\* state, the id counter, the correlation table nor the send buffer;
\* _send_response with the id of that request then appends one response
\* echoing the id, and changes nothing else of the client.
C25_UnknownMethodRecoverable ==
    [][/\ \A m \in ServerMessages :
             (m.method \notin Catalog /\ Recv(m))
                 => /\ last'.res \in {"ok", "NotImplementedError"}
                    /\ m.id # NoId => last'.ret = m.id
                    /\ UNCHANGED <<_state, _id_counter, _unanswered_requests,
                                   _send_buf>>
       /\ RawResponse
             => /\ last'.res = "ok"
                /\ _send_buf' = Append(_send_buf, _make_response(last.ret))
                /\ UNCHANGED <<_state, _id_counter, _unanswered_requests>>]_vars
C25_Witness ==
    /\ last.op = "_send_response"
    /\ last.res = "ok"
    /\ _send_buf # <<>>
    /\ _send_buf[Len(_send_buf)] = _make_response(StrId(7))
    /\ held = {}

\* The byte offset in the stream at which frame j ends, the number of
\* frames complete within the first n bytes, and the event of a body.
FrameEnd(j) == Len(Stream(SubSeq(msgs, 1, j)))
Complete(n) == Cardinality({j \in 1..Len(msgs) : FrameEnd(j) <= n})
EventOf(m) ==
    IF m.type = "Response" THEN Event("Initialized", NoId)
    ELSE IF m.method \in DOMAIN ServerRequestClasses
    THEN ServerRequestEvent(ServerRequestClasses[m.method].cls, m.id)
    ELSE Event(ServerNotificationClasses[m.method].cls, NoId)
AllOk == \A j \in 1..Len(log) : log[j].res = "ok"

\* C26: however the byte stream of m1..mn is cut into chunks, as long as no
\* frame fails, the events yielded are those of m1..mn in order; an event is
\* yielded only by the feed whose bytes complete its frame; and a feed that
\* has run to its end has yielded every frame complete so far.
C26_IncrementalDecode ==
    [][(FeedNext /\ AllOk')
          => /\ \A j \in 1..Len(log') :
                    /\ log'[j].message = msgs[j]
                    /\ log'[j].ev = EventOf(msgs[j])
             /\ Len(log') > Len(log)
                    => /\ gen.before < FrameEnd(Len(log'))
                       /\ FrameEnd(Len(log')) <= fed
             /\ gen'.pc = "idle" => Len(log') = Complete(fed)]_vars
C26_Witness ==
    /\ Len(msgs) = 2
    /\ Len(log) = 2
    /\ AllOk
    /\ msgs[1].type = "Response"
    /\ _state = "NORMAL"
    /\ gen.pc = "running"
    /\ gen.before > FrameEnd(1)
    /\ fed = Len(wire)

\* C27: when recv fails on frame k, the events of the frames before it were
\* yielded and their effects are in place, the receive buffer holds exactly
\* the bytes fed after frame k, and a later feed that runs to its end has
\* taken every complete frame off the buffer.
C27_FailureKeepsTheRest ==
    [][FeedNext
          => LET k == Len(log')
             IN  /\ (Len(log') > Len(log) /\ log'[k].res # "ok")
                       => /\ \A j \in 1..(k - 1) :
                                log[j].res = "ok"
                                    => /\ log[j].message = msgs[j]
                                       /\ log[j].ev = EventOf(msgs[j])
                          /\ (\E j \in 1..(k - 1) :
                                 log[j].res = "ok" /\ msgs[j].type = "Response")
                                => /\ _state' = "NORMAL"
                                   /\ InitializedFrame \in Range(_send_buf')
                          /\ _recv_buf' = SubSeq(wire, FrameEnd(k) + 1, fed)
                          /\ gen'.pc = "idle"
                 /\ last'.res = "StopIteration"
                       => /\ Len(log') = Complete(fed)
                          /\ _recv_buf' = SubSeq(wire, FrameEnd(k) + 1, fed)]_vars
C27_Witness ==
    /\ Len(log) = 3
    /\ log[1].res = "ok"
    /\ msgs[1].type = "Response"
    /\ log[2].res = "NotImplementedError"
    /\ log[3].res = "ok"
    /\ log[3].ev = EventOf(msgs[3])
    /\ gen.pc = "running"
    /\ gen.before >= FrameEnd(3)

C29_ManualHandshake ==
    [][\A m \in Responses :
          (/\ ~initialize
           /\ m.error = JNull
           /\ Validates(InitializedFields, m.result)
           /\ Answers(m, "initialize")
           /\ Recv(m))
              => /\ _state' = "NORMAL"
                 /\ _send_buf' = Append(_send_buf, InitializedFrame)]_vars

\* C30: a successful request operation increases the id counter by one, adds
\* one entry to the correlation table, keyed by the id it returns and
\* recording the method, and appends one request frame with that id; a
\* notification operation and a reply append one frame and leave the id
\* counter and the correlation table unchanged.
C30_RequestMovesThreeTogether ==
    [][/\ \A op \in DOMAIN RequestOps :
             (DocRequest(op) /\ last'.res = "ok")
                 => /\ _id_counter' = _id_counter + 1
                    /\ DOMAIN _unanswered_requests'
                           = DOMAIN _unanswered_requests \cup {last'.ret}
                    /\ last'.ret \notin DOMAIN _unanswered_requests
                    /\ _unanswered_requests'[last'.ret].method = RequestOps[op]
                    /\ _send_buf' = Append(_send_buf,
                           _make_request(RequestOps[op], NoId, last'.ret))
       /\ \A method \in RawMethods :
             RawRequest(method)
                 => /\ _id_counter' = _id_counter + 1
                    /\ DOMAIN _unanswered_requests'
                           = DOMAIN _unanswered_requests \cup {last'.ret}
                    /\ _unanswered_requests'[last'.ret].method = method
                    /\ _send_buf' = Append(_send_buf,
                           _make_request(method, NoId, last'.ret))
       /\ \A op \in DOMAIN NotificationOps :
             (DocNotification(op) /\ last'.res = "ok")
                 => /\ _send_buf' = Append(_send_buf,
                           _make_request(NotificationOps[op], NoId, NoId))
                    /\ UNCHANGED <<_id_counter, _unanswered_requests>>
       /\ \A id \in held :
             Reply(id)
                 => /\ Len(_send_buf') = Len(_send_buf) + 1
                    /\ UNCHANGED <<_id_counter, _unanswered_requests>>]_vars

\* The position of a lifecycle state in the order of the session.
Order ==
    [s \in ClientState |->
        CASE s = "NOT_INITIALIZED" -> 1
          [] s = "WAITING_FOR_INITIALIZED" -> 2
          [] s = "NORMAL" -> 3
          [] s = "WAITING_FOR_SHUTDOWN" -> 4
          [] s = "SHUTDOWN" -> 5
          [] OTHER -> 6]

C32_InitializeAllOrNothing ==
    [][(_send_buf' = Append(_send_buf, InitializedFrame))
          <=> (_state = "WAITING_FOR_INITIALIZED" /\ _state' = "NORMAL")]_vars

\* C33: in WAITING_FOR_INITIALIZED the correlation table holds a pending
\* initialize request, and in WAITING_FOR_SHUTDOWN a pending shutdown request.
C33_WaitingHasPending ==
    /\ _state = "WAITING_FOR_INITIALIZED"
          => \E id \in DOMAIN _unanswered_requests :
                _unanswered_requests[id].method = "initialize"
    /\ _state = "WAITING_FOR_SHUTDOWN"
          => \E id \in DOMAIN _unanswered_requests :
                _unanswered_requests[id].method = "shutdown"

\* C34: every $/cancelRequest notification in the send buffer names an id
\* this session has allocated: an integer from 0 up to, not including, the
\* id counter.
C34_CancelNamesAllocatedId ==
    \A i \in DOMAIN _send_buf :
        _send_buf[i].method = "$/cancelRequest"
            => /\ _send_buf[i].arg \in Range(allocated)
               /\ _send_buf[i].arg.t = "int"
               /\ _send_buf[i].arg.n >= 0
               /\ _send_buf[i].arg.n < _id_counter

\* C35: once the state is EXITED no step appends a frame to the send buffer:
\* the exit notification is the last frame of the session.
C35_ExitIsLastFrame ==
    [][_state = "EXITED"
          => \/ _send_buf' = _send_buf
             \/ _send_buf' = <<>>]_vars

\* C36: a server request whose id equals the id of a pending request of the
\* client leaves the correlation table unchanged; the reply to it changes
\* neither the table, the id counter nor the lifecycle state; and the response
\* to the client's own request is dispatched as usual afterwards (for the
\* initialize request: Initialized is yielded, the entry is removed and the
\* state becomes NORMAL).
C36_DirectionsDoNotInterfere ==
    [][/\ \A m \in ServerMessages :
             (m.id \in DOMAIN _unanswered_requests /\ Recv(m))
                 => UNCHANGED <<_unanswered_requests, _id_counter, _state>>
       /\ \A id \in held :
             (id \in DOMAIN _unanswered_requests /\ Reply(id))
                 => /\ UNCHANGED <<_unanswered_requests, _id_counter, _state>>
                    /\ _send_buf' = Append(_send_buf, _make_response(id))
       /\ \A m \in Responses :
             (/\ m.id \in replied
              /\ Answers(m, "initialize")
              /\ m.error = JNull
              /\ Validates(InitializedFields, m.result)
              /\ Recv(m))
                 => /\ last'.res = "ok"
                    /\ last'.ev.type = "Initialized"
                    /\ m.id \notin DOMAIN _unanswered_requests'
                    /\ _state' = "NORMAL"]_vars
C36_Witness ==
    /\ in_use.kind = "server"
    /\ IntId(0) \in replied
    /\ dispatched = {IntId(0)}
    /\ _state = "NORMAL"
    /\ last.op = "recv"
    /\ last.ev.type = "Initialized"

C38_EventsCarryTheRequestId ==
    [][\A m \in Responses :
          (/\ m.id \in DOMAIN _unanswered_requests
           /\ _unanswered_requests[m.id].method \in DocMethods
           /\ m.error = JNull
           /\ Recv(m)
           /\ last'.res = "ok")
              => last'.ev.message_id = m.id]_vars

\* C39: no byte passed to recv is lost, and the effects of the frames do not
\* wait for the embedder to iterate: every byte fed is part of a frame taken
\* off the receive buffer or is in the receive buffer, and once the bytes of
\* the response to initialize have been fed the state is NORMAL and its
\* correlation entry is removed.
C39_FeedAppendsAtOnce ==
    /\ Len(_recv_buf) + FrameEnd(Len(log)) = fed
    /\ (msgs[1].type = "Response" /\ fed >= FrameEnd(1))
          => /\ _state = "NORMAL"
             /\ IntId(0) \notin DOMAIN _unanswered_requests

====
